---------------------------- MODULE Spec2Model ----------------------------
(* A model of convert_alarm.py: the image provisioning pipeline            *)
(* check_dependencies -> download_alarm -> create_image, as run by main()  *)
(* or by a direct call of download_alarm / create_image.                   *)
(*                                                                         *)
(* Strings the code inspects character by character (the size token, the   *)
(* answer typed at the prompt) are sequences of one-character strings.     *)
(* Paths are sequences of their "/"-separated components.                  *)
EXTENDS Integers, Sequences, FiniteSets, TLC

VARIABLES
    fs,      \* the working directory: resolved path -> file record
    env,     \* what the host reports: platform, os-release, tools, free space
    args,    \* the arguments of the current run
    pc,      \* the position of the current run in the code
    status,  \* the exit status of the current run, -1 while it runs
    h,       \* what the current run has done so far (history); h.prior tells
             \* whether an earlier run's transfer failed or was interrupted
    runs,    \* the number of runs started so far
    gd       \* the gdisk session: its prompt, the script position, the table

vars == <<fs, env, args, pc, status, h, runs, gd>>

----------------------------------------------------------------------------
(* Bounds of the model *)

\* the longest size token enumerated for the size-token check
MaxTokenLen == 3

\* the number of consecutive runs over the same working directory
MaxRuns == 2

----------------------------------------------------------------------------
(* Constants of the program *)

REQUIRED_SPACE_GB == 2

DEFAULT_IMAGE_SIZE == <<"1", "2", "8", "G">>

DEFAULT_OUTPUT_FILE == <<"alarm.qcow2">>

\* MIRRORS, as a function from the identifier to a name for its URL
MIRRORS == [m \in {"official", "tsinghua"} |->
              IF m = "official" THEN "url_official" ELSE "url_tsinghua"]

\* main(): tar_file = "ArchLinuxARM-aarch64-latest.tar.gz"
tar_file == <<"ArchLinuxARM-aarch64-latest.tar.gz">>

----------------------------------------------------------------------------
(* Python string operations used by the code *)

Digits == {"0", "1", "2", "3", "4", "5", "6", "7", "8", "9"}

Whitespace == {" "}

DigitValue(c) ==
    CASE c = "0" -> 0 [] c = "1" -> 1 [] c = "2" -> 2 [] c = "3" -> 3
      [] c = "4" -> 4 [] c = "5" -> 5 [] c = "6" -> 6 [] c = "7" -> 7
      [] c = "8" -> 8 [] c = "9" -> 9

\* str.upper() and str.lower() on one character
UpperChar(c) ==
    CASE c = "k" -> "K" [] c = "m" -> "M" [] c = "g" -> "G" [] c = "t" -> "T"
      [] c = "x" -> "X" [] c = "y" -> "Y" [] c = "n" -> "N" [] c = "a" -> "A"
      [] c = "b" -> "B" [] c = "c" -> "C" [] c = "e" -> "E" [] c = "s" -> "S"
      [] OTHER -> c

LowerChar(c) ==
    CASE c = "K" -> "k" [] c = "M" -> "m" [] c = "G" -> "g" [] c = "T" -> "t"
      [] c = "X" -> "x" [] c = "Y" -> "y" [] c = "N" -> "n" [] c = "A" -> "a"
      [] c = "B" -> "b" [] c = "C" -> "c" [] c = "E" -> "e" [] c = "S" -> "s"
      [] OTHER -> c

Lower(s) == [i \in 1..Len(s) |-> LowerChar(s[i])]

\* str.strip(): leading and trailing whitespace removed
RECURSIVE LStrip(_)
LStrip(s) ==
    IF s = <<>> THEN <<>>
    ELSE IF Head(s) \in Whitespace THEN LStrip(Tail(s)) ELSE s

RECURSIVE RStrip(_)
RStrip(s) ==
    IF s = <<>> THEN <<>>
    ELSE IF s[Len(s)] \in Whitespace THEN RStrip(SubSeq(s, 1, Len(s) - 1))
    ELSE s

Strip(s) == RStrip(LStrip(s))

\* s[:-1]: all but the last character; the empty string for "" and for one character
ButLast(s) == IF Len(s) = 0 THEN <<>> ELSE SubSeq(s, 1, Len(s) - 1)

\* the digit part of an int() literal: digits, single underscores only between digits
DigitPart(d) ==
    /\ Len(d) > 0
    /\ \A i \in 1..Len(d) : d[i] \in Digits \cup {"_"}
    /\ d[1] \in Digits
    /\ d[Len(d)] \in Digits
    /\ \A i \in 1..(Len(d) - 1) : ~(d[i] = "_" /\ d[i + 1] = "_")

\* int(s) raises ValueError unless s, stripped of surrounding whitespace, is an
\* optional sign followed by a digit part
IntLiteral(s) ==
    LET t == Strip(s) IN
    /\ Len(t) > 0
    /\ IF t[1] \in {"+", "-"} THEN DigitPart(Tail(t)) ELSE DigitPart(t)

RECURSIVE DigitsValue(_)
DigitsValue(d) ==
    IF d = <<>> THEN 0
    ELSE IF d[Len(d)] = "_" THEN DigitsValue(ButLast(d))
    ELSE 10 * DigitsValue(ButLast(d)) + DigitValue(d[Len(d)])

\* the value int(s) returns for a literal
IntValue(s) ==
    LET t == Strip(s) IN
    IF t[1] = "-" THEN 0 - DigitsValue(Tail(t))
    ELSE IF t[1] = "+" THEN DigitsValue(Tail(t))
    ELSE DigitsValue(t)

----------------------------------------------------------------------------
(* create_image, lines 137-144: the size-token check *)

Units == {"K", "M", "G", "T"}

\* TRUE iff the try block raises neither ValueError nor IndexError
SizeAccepted(size) ==
    /\ IntLiteral(ButLast(size))
    /\ Len(size) > 0
    /\ UpperChar(size[Len(size)]) \in Units

\* size_num, for an accepted token
SizeNum(size) == IntValue(ButLast(size))


----------------------------------------------------------------------------
(* The working directory and its files *)

\* os.path.dirname of a relative path: everything before the last "/"
\* (the empty sequence is the empty string "")
dirname(p) == ButLast(p)

\* the file a relative path names: "." components name the directory itself
Resolve(p) == SelectSeq(p, LAMBDA c : c # ".")

\* the files of the working directory that the runs can name
Files == {tar_file, DEFAULT_OUTPUT_FILE}

Absent == [exists |-> FALSE, data |-> "none", cap |-> <<>>, table |-> "none"]

File(data, cap, table) ==
    [exists |-> TRUE, data |-> data, cap |-> cap, table |-> table]

\* os.path.exists(p) in the working directory f
Exists(f, p) == Resolve(p) \in DOMAIN f /\ f[Resolve(p)].exists

\* os.remove(p)
Remove(f, p) == [f EXCEPT ![Resolve(p)] = Absent]

\* "if os.path.exists(p): os.remove(p)"
RemoveIfExists(f, p) == IF Exists(f, p) THEN Remove(f, p) ELSE f

\* a tool writing the file at p
WriteFile(f, p, rec) == [f EXCEPT ![Resolve(p)] = rec]

\* os.statvfs(d) succeeds only on an existing directory; the empty path and a
\* directory that does not exist raise FileNotFoundError
StatvfsRaises(d) == d = <<>> \/ Resolve(d) # <<>>

----------------------------------------------------------------------------
(* The inputs of a run *)

\* size tokens given to the runs of the pipeline
RunSizes ==
    { DEFAULT_IMAGE_SIZE, <<"a", "b", "c">>, <<"0", "G">>, <<"-", "5", "G">>,
      <<"1", "2", "8">> }

OutputPaths == {DEFAULT_OUTPUT_FILE, tar_file}

DownloadPaths == {tar_file, <<".">> \o tar_file, <<"nodir">> \o tar_file}

\* --mirror has choices=["official", "tsinghua"]; a direct call has none
MirrorChoices == {"official", "tsinghua"}

MirrorIds == MirrorChoices \cup {"ustc"}

\* what the user may type at the overwrite prompt
Answers ==
    { <<"y">>, <<"Y">>, <<" ", "y">>, <<"n">>, <<>>, <<"y", "e", "s">> }

MainArgs ==
    [entry : {"main"}, output : OutputPaths, size : RunSizes,
     mirror : MirrorChoices, force : BOOLEAN, output_file : {tar_file}]

DownloadArgs ==
    [entry : {"download_alarm"}, output : {DEFAULT_OUTPUT_FILE},
     size : {DEFAULT_IMAGE_SIZE}, mirror : MirrorIds, force : {FALSE},
     output_file : DownloadPaths]

CreateArgs ==
    [entry : {"create_image"}, output : OutputPaths, size : RunSizes,
     mirror : {"tsinghua"}, force : {FALSE}, output_file : {tar_file}]

Args == MainArgs \cup DownloadArgs \cup CreateArgs

\* free space in MiB (f_frsize * f_bavail, scaled): just below and at the threshold
FreeValues == {REQUIRED_SPACE_GB * 1024 - 1, REQUIRED_SPACE_GB * 1024}

Envs ==
    [os : {"darwin", "debian", "arch", "other", "nofile"},
     missing : BOOLEAN, free : FreeValues]

\* no gdisk session is followed prompt by prompt
NoSession ==
    [mode |-> "none", pos |-> 0, cap |-> 0, cur |-> <<>>, table |-> <<>>,
     emptied |-> FALSE, written |-> FALSE]

\* the history of a run that has not done anything yet
NoHistory(f) ==
    [fs0 |-> f, fsPre |-> f, stage |-> "Init", err |-> "none",
     prompts |-> 0, answer |-> <<"?">>, url |-> "none",
     fetchInvoked |-> FALSE, skipped |-> FALSE, statvfs |-> FALSE,
     curlStarted |-> FALSE, curlFailed |-> FALSE,
     qemuInvoked |-> FALSE, qemuFailed |-> FALSE,
     gdiskInvoked |-> FALSE, gdiskFailed |-> FALSE,
     prior |-> FALSE]

\* where a run starts
EntryPc(a) ==
    CASE a.entry = "main" -> "check_dependencies"
      [] a.entry = "download_alarm" -> "download_alarm"
      [] a.entry = "create_image" -> "create_image"

InitialFs ==
    { f \in [Files -> {Absent, File("empty", <<>>, "none"),
                       File("archive", <<>>, "none"),
                       File("user", <<>>, "none")}] :
        /\ f[tar_file].data \in {"none", "empty", "archive"}
        /\ f[DEFAULT_OUTPUT_FILE].data \in {"none", "user"} }

Init ==
    /\ fs \in InitialFs
    /\ env \in Envs
    /\ args \in Args
    /\ pc = EntryPc(args)
    /\ status = -1
    /\ h = NoHistory(fs)
    /\ runs = 1
    /\ gd = NoSession

----------------------------------------------------------------------------
(* check_dependencies, lines 63-97 *)

CheckDependencies ==
    /\ pc = "check_dependencies"
    /\ IF env.os \in {"other", "nofile"}
       THEN /\ pc' = "exit"
            /\ status' = 1
            /\ h' = [h EXCEPT !.err = "UnsupportedSystem"]
       ELSE IF env.missing
       THEN /\ pc' = "exit"
            /\ status' = 1
            /\ h' = [h EXCEPT !.err = "MissingDependency"]
       ELSE /\ pc' = "main_215"
            /\ status' = status
            /\ h' = [h EXCEPT !.stage = "ToolsChecked"]
    /\ UNCHANGED <<gd, fs, env, args, runs>>

----------------------------------------------------------------------------
(* main, lines 212-221 *)

\* line 215 with the test left out: the fetch stage runs in every run
MainAlwaysFetch ==
    /\ pc = "main_215"
    /\ pc' = "download_alarm"
    /\ UNCHANGED <<gd, fs, env, args, status, h, runs>>

\* line 215 with a test of the size too: only a non-empty archive is kept
MainFetchIfEmpty ==
    /\ pc = "main_215"
    /\ IF ~Exists(fs, tar_file) \/ fs[Resolve(tar_file)].data = "empty"
       THEN /\ pc' = "download_alarm"
            /\ h' = h
       ELSE /\ pc' = "create_image"
            /\ h' = [h EXCEPT !.skipped = TRUE, !.stage = "ArchiveReady"]
    /\ UNCHANGED <<gd, fs, env, args, status, runs>>

\* line 215: the fetch stage is skipped iff a file exists at tar_file
MainFetchOrSkip ==
    /\ pc = "main_215"
    /\ IF ~Exists(fs, tar_file)
       THEN /\ pc' = "download_alarm"
            /\ h' = h
       ELSE /\ pc' = "create_image"
            /\ h' = [h EXCEPT !.skipped = TRUE, !.stage = "ArchiveReady"]
    /\ UNCHANGED <<gd, fs, env, args, status, runs>>

----------------------------------------------------------------------------
(* download_alarm, lines 99-129 *)

\* MIRRORS.get(mirror, MIRRORS["tsinghua"])
SelectUrl(mirror) ==
    IF mirror \in DOMAIN MIRRORS THEN MIRRORS[mirror] ELSE MIRRORS["tsinghua"]

\* lines 105-114: the URL, the free-space query and the threshold
DownloadAlarmEntry ==
    /\ pc = "download_alarm"
    /\ IF StatvfsRaises(dirname(args.output_file))
       THEN /\ pc' = "exit"
            /\ status' = 1
            /\ h' = [h EXCEPT !.fetchInvoked = TRUE, !.statvfs = TRUE,
                              !.url = SelectUrl(args.mirror),
                              !.err = "FileNotFoundError"]
       ELSE IF env.free < REQUIRED_SPACE_GB * 1024
       THEN /\ pc' = "exit"
            /\ status' = 1
            /\ h' = [h EXCEPT !.fetchInvoked = TRUE, !.statvfs = TRUE,
                              !.url = SelectUrl(args.mirror),
                              !.err = "InsufficientSpace"]
       ELSE /\ pc' = "curl"
            /\ status' = status
            /\ h' = [h EXCEPT !.fetchInvoked = TRUE, !.statvfs = TRUE,
                              !.url = SelectUrl(args.mirror)]
    /\ UNCHANGED <<gd, fs, env, args, runs>>

\* line 118: curl runs to its end, fails or is interrupted; a transfer that
\* does not complete may have written part of the file
Curl ==
    /\ pc = "curl"
    /\ \/ /\ fs' = WriteFile(fs, args.output_file, File("archive", <<>>, "none"))
          /\ pc' = "curl_done"
          /\ h' = [h EXCEPT !.curlStarted = TRUE]
       \/ /\ fs' \in {fs, WriteFile(fs, args.output_file, File("partial_archive", <<>>, "none"))}
          /\ pc' \in {"curl_failed", "curl_interrupted"}
          /\ h' = [h EXCEPT !.curlStarted = TRUE, !.curlFailed = TRUE]
    /\ UNCHANGED <<gd, env, args, status, runs>>

\* line 119 and the return to the caller
DownloadAlarmReturn ==
    /\ pc = "curl_done"
    /\ IF args.entry = "main"
       THEN /\ pc' = "create_image"
            /\ status' = status
       ELSE /\ pc' = "exit"
            /\ status' = 0
    /\ h' = [h EXCEPT !.stage = "ArchiveReady"]
    /\ UNCHANGED <<gd, fs, env, args, runs>>

\* lines 120-124: except subprocess.CalledProcessError
CurlFailedHandler ==
    /\ pc = "curl_failed"
    /\ fs' = RemoveIfExists(fs, args.output_file)
    /\ pc' = "exit"
    /\ status' = 1
    /\ h' = [h EXCEPT !.err = "TransferFailed"]
    /\ UNCHANGED <<gd, env, args, runs>>

\* lines 125-129 without the os.remove
CurlInterruptedHandlerKeeps ==
    /\ pc = "curl_interrupted"
    /\ pc' = "exit"
    /\ status' = 1
    /\ h' = [h EXCEPT !.err = "UserCancelled"]
    /\ UNCHANGED <<gd, fs, env, args, runs>>

\* lines 125-129: except KeyboardInterrupt
CurlInterruptedHandler ==
    /\ pc = "curl_interrupted"
    /\ fs' = RemoveIfExists(fs, args.output_file)
    /\ pc' = "exit"
    /\ status' = 1
    /\ h' = [h EXCEPT !.err = "UserCancelled"]
    /\ UNCHANGED <<gd, env, args, runs>>

----------------------------------------------------------------------------
(* create_image, lines 131-183 *)

\* lines 137-146: the size token is checked first
CreateImageEntry ==
    /\ pc = "create_image"
    /\ IF SizeAccepted(args.size)
       THEN /\ pc' = "exists_check"
            /\ status' = status
            /\ h' = h
       ELSE /\ pc' = "exit"
            /\ status' = 1
            /\ h' = [h EXCEPT !.err = "InvalidSizeFormat"]
    /\ UNCHANGED <<gd, fs, env, args, runs>>

\* only an explicit "n" cancels
DeclinesOnlyOnN(answer) == Lower(Strip(answer)) = <<"n">>

\* line 150-151: input(...).strip().lower() != 'y'
Declines(answer) == Lower(Strip(answer)) # <<"y">>

\* lines 148-153 left out: qemu-img is run without asking
ExistsCheckNoPrompt ==
    /\ pc = "exists_check"
    /\ pc' = "qemu_img"
    /\ UNCHANGED <<gd, fs, env, args, status, h, runs>>

\* lines 148-153: a file at the output path makes the run ask, whatever --force
\* says; the read of the answer may also end in EOFError or KeyboardInterrupt,
\* which nothing catches
ExistsCheck ==
    /\ pc = "exists_check"
    /\ IF Exists(fs, args.output)
       THEN \/ \E answer \in Answers :
                 IF Declines(answer)
                 THEN /\ pc' = "exit"
                      /\ status' = 0
                      /\ h' = [h EXCEPT !.prompts = @ + 1, !.answer = answer,
                                        !.err = "Declined"]
                 ELSE /\ pc' = "qemu_img"
                      /\ status' = status
                      /\ h' = [h EXCEPT !.prompts = @ + 1, !.answer = answer]
            \/ /\ pc' = "exit"
               /\ status' \in {1, 130}
               /\ h' = [h EXCEPT !.prompts = @ + 1,
                                 !.err = IF status' = 1 THEN "EOFError"
                                         ELSE "KeyboardInterrupt"]
       ELSE /\ pc' = "qemu_img"
            /\ status' = status
            /\ h' = h
    /\ UNCHANGED <<gd, fs, env, args, runs>>

\* line 156: qemu-img create succeeds, fails or is interrupted; a failed
\* creation may leave a file behind
QemuImg ==
    /\ pc = "qemu_img"
    /\ \/ /\ fs' = WriteFile(fs, args.output, File("qcow2", args.size, "none"))
          /\ pc' = "gdisk"
          /\ h' = [h EXCEPT !.qemuInvoked = TRUE, !.stage = "ImageAllocated",
                            !.fsPre = fs']
       \/ /\ fs' \in {fs, WriteFile(fs, args.output, File("partial_image", args.size, "none"))}
          /\ pc' \in {"qemu_failed", "qemu_interrupted"}
          /\ h' = [h EXCEPT !.qemuInvoked = TRUE, !.qemuFailed = TRUE]
    /\ UNCHANGED <<gd, env, args, status, runs>>

\* lines 161-165 without the os.remove
QemuFailedHandlerKeeps ==
    /\ pc = "qemu_failed"
    /\ pc' = "exit"
    /\ status' = 1
    /\ h' = [h EXCEPT !.err = "AllocationFailed"]
    /\ UNCHANGED <<gd, fs, env, args, runs>>

\* lines 161-165 without the sys.exit(1): create_image goes on to gdisk
QemuFailedHandlerGoesOn ==
    /\ pc = "qemu_failed"
    /\ fs' = RemoveIfExists(fs, args.output)
    /\ pc' = "gdisk"
    /\ status' = status
    /\ h' = [h EXCEPT !.err = "AllocationFailed"]
    /\ UNCHANGED <<gd, env, args, runs>>

\* lines 161-165: except subprocess.CalledProcessError
QemuFailedHandler ==
    /\ pc = "qemu_failed"
    /\ fs' = RemoveIfExists(fs, args.output)
    /\ pc' = "exit"
    /\ status' = 1
    /\ h' = [h EXCEPT !.err = "AllocationFailed"]
    /\ UNCHANGED <<gd, env, args, runs>>

\* lines 166-170: except KeyboardInterrupt
QemuInterruptedHandler ==
    /\ pc = "qemu_interrupted"
    /\ fs' = RemoveIfExists(fs, args.output)
    /\ pc' = "exit"
    /\ status' = 1
    /\ h' = [h EXCEPT !.err = "UserCancelled"]
    /\ UNCHANGED <<gd, env, args, runs>>

\* line 174: gdisk is fed the script; it writes the table only at the final
\* "w", "y", so a failed or interrupted gdisk leaves the file as it was.
\* KeyboardInterrupt is not caught here: the run ends with status 130.
Gdisk ==
    /\ pc = "gdisk"
    /\ \/ /\ fs' = WriteFile(fs, args.output, File("qcow2", args.size, "gpt"))
          /\ pc' = "exit"
          /\ status' = 0
          /\ h' = [h EXCEPT !.gdiskInvoked = TRUE, !.stage = "Partitioned"]
       \/ /\ fs' = fs
          /\ pc' = "gdisk_failed"
          /\ status' = status
          /\ h' = [h EXCEPT !.gdiskInvoked = TRUE, !.gdiskFailed = TRUE]
       \/ /\ fs' = fs
          /\ pc' = "exit"
          /\ status' = 130
          /\ h' = [h EXCEPT !.gdiskInvoked = TRUE, !.err = "KeyboardInterrupt"]
    /\ UNCHANGED <<gd, env, args, runs>>

\* lines 180-183 without the sys.exit(1): create_image returns, main() ends
GdiskFailedHandlerReturns ==
    /\ pc = "gdisk_failed"
    /\ pc' = "exit"
    /\ status' = 0
    /\ h' = [h EXCEPT !.err = "PartitioningFailed"]
    /\ UNCHANGED <<gd, fs, env, args, runs>>

\* lines 180-183 with the cleanup of the allocation handlers
GdiskFailedHandlerRemoves ==
    /\ pc = "gdisk_failed"
    /\ fs' = RemoveIfExists(fs, args.output)
    /\ pc' = "exit"
    /\ status' = 1
    /\ h' = [h EXCEPT !.err = "PartitioningFailed"]
    /\ UNCHANGED <<gd, env, args, runs>>

\* lines 180-183: except subprocess.CalledProcessError: no cleanup
GdiskFailedHandler ==
    /\ pc = "gdisk_failed"
    /\ fs' = fs
    /\ pc' = "exit"
    /\ status' = 1
    /\ h' = [h EXCEPT !.err = "PartitioningFailed"]
    /\ UNCHANGED <<gd, env, args, runs>>

----------------------------------------------------------------------------
(* One run after another over the same working directory *)

\* between two runs there are no arguments, and the host state is not observed
NoArgs ==
    [entry |-> "none", output |-> DEFAULT_OUTPUT_FILE, size |-> DEFAULT_IMAGE_SIZE,
     mirror |-> "tsinghua", force |-> FALSE, output_file |-> tar_file]

NoEnv == [os |-> "darwin", missing |-> FALSE, free |-> REQUIRED_SPACE_GB * 1024]

\* the run has ended: only the working directory outlives it
EndRun ==
    /\ pc = "exit"
    /\ runs < MaxRuns
    /\ pc' = "idle"
    /\ status' = -1
    /\ h' = [NoHistory(fs) EXCEPT !.prior = h.prior \/ h.curlFailed]
    /\ args' = NoArgs
    /\ env' = NoEnv
    /\ UNCHANGED <<gd, fs, runs>>

\* the next run starts with arguments and a host state of its own
NewRun ==
    /\ pc = "idle"
    /\ runs' = runs + 1
    /\ env' \in Envs
    /\ args' \in Args
    /\ pc' = EntryPc(args')
    /\ UNCHANGED <<gd, fs, status, h>>

Next ==
    \/ CheckDependencies
    \/ MainFetchOrSkip
    \/ DownloadAlarmEntry
    \/ Curl
    \/ DownloadAlarmReturn
    \/ CurlFailedHandler
    \/ CurlInterruptedHandler
    \/ CreateImageEntry
    \/ ExistsCheck
    \/ QemuImg
    \/ QemuFailedHandler
    \/ QemuInterruptedHandler
    \/ Gdisk
    \/ GdiskFailedHandler
    \/ EndRun
    \/ NewRun

Spec == Init /\ [][Next]_vars

----------------------------------------------------------------------------
(* The size-token check of create_image on its own: create_image is called *)
(* with each token of a bounded set, in an empty working directory         *)

TokenChars == {"0", "1", "5", "-", "+", " ", "_", "G", "g", "X"}

ListedTokens ==
    { <<"1", "2", "8", "G">>, <<"1", "2", "8", "g">>, <<"0", "G">>,
      <<"-", "5", "G">>, <<"+", "5", "G">>, <<" ", "5", "G">>, <<"G">>, <<>>,
      <<"1", "2", "8">>, <<"1", "2", "8", "X">>, <<"a", "b", "c">>,
      <<"3", "0", "0", "M">>, <<"1", "K">>, <<"2", "t">> }

SizeTokens ==
    ListedTokens \cup UNION { [1..k -> TokenChars] : k \in 0..MaxTokenLen }

InitSize ==
    /\ fs = [p \in Files |-> Absent]
    /\ env = NoEnv
    /\ args \in [entry : {"create_image"}, output : {DEFAULT_OUTPUT_FILE},
                 size : SizeTokens, mirror : {"tsinghua"}, force : {FALSE},
                 output_file : {tar_file}]
    /\ pc = "create_image"
    /\ status = -1
    /\ h = NoHistory(fs)
    /\ runs = 1
    /\ gd = NoSession

NextSize == CreateImageEntry

SpecSize == InitSize /\ [][NextSize]_vars

----------------------------------------------------------------------------
(* Properties *)

MainRun == args.entry = "main"

Exited == pc = "exit"

\* the file at path p when the run started, and now
ExistedAtStart(p) == Exists(h.fs0, p)

\* a size token of the documented form <positive integer><K|M|G|T>, the unit in
\* either case: a digit-only magnitude greater than zero, then the unit
ValidSizeToken(size) ==
    /\ Len(size) >= 2
    /\ \A i \in 1..(Len(size) - 1) : size[i] \in Digits
    /\ DigitsValue(ButLast(size)) > 0
    /\ UpperChar(size[Len(size)]) \in Units

\* the output path names another file than the archive
OutputApart == Resolve(args.output) # Resolve(tar_file)

\* C1: in a run of main() with --force and a file at the output path, the
\* overwrite prompt is never consulted (stated for the well-formed size tokens
\* and an output path that is not the archive); in every run it is consulted
\* at most once.
C1_ForceBypassesPrompt ==
    /\ h.prompts <= 1
    /\ ( /\ MainRun
         /\ args.force
         /\ ExistedAtStart(args.output)
         /\ OutputApart
         /\ ValidSizeToken(args.size) ) => h.prompts = 0

\* C2: a run of main() with a malformed size token changes nothing in the
\* working directory, starts no download, shows no prompt, allocates no image,
\* and ends with a non-zero status (stated for an output path that is not the
\* archive).
C2_MalformedSizeFailsFast ==
    (MainRun /\ OutputApart /\ ~ValidSizeToken(args.size)) =>
        /\ fs = h.fs0
        /\ ~h.curlStarted
        /\ h.prompts = 0
        /\ ~h.qemuInvoked
        /\ Exited => status # 0

\* C3: once the size-token check of create_image has run, the token was
\* accepted if and only if it is <positive integer><K|M|G|T> (unit in either
\* case); every other token ends the run with InvalidSizeFormat.
C3_SizeCheckExact ==
    (args.entry = "create_image" /\ pc # "create_image") =>
        /\ (pc = "exists_check") <=> ValidSizeToken(args.size)
        /\ (pc = "exit") <=> ~ValidSizeToken(args.size)
        /\ (pc = "exit") => (status # 0 /\ h.err = "InvalidSizeFormat")

\* C4: in a run of main() with less free space than the threshold, neither
\* curl nor qemu-img is ever started, whether the archive is present or not,
\* and the run ends with a non-zero status (stated for the well-formed size
\* tokens and an output path that is not the archive).
C4_LowSpaceStopsRun ==
    ( /\ MainRun
      /\ env.free < REQUIRED_SPACE_GB * 1024
      /\ OutputApart
      /\ ValidSizeToken(args.size) ) =>
        /\ ~h.curlStarted
        /\ ~h.qemuInvoked
        /\ pc \notin {"curl", "qemu_img"}
        /\ Exited => status # 0

\* no external tool failed or was interrupted in this run
ToolsSucceeded ==
    /\ ~h.curlFailed
    /\ ~h.qemuFailed
    /\ ~h.gdiskFailed
    /\ h.err \notin {"KeyboardInterrupt", "EOFError", "UserCancelled"}

\* C5: a run of main() with no file at the output path, size 128G, mirror
\* tsinghua, every tool installed, enough free space and every external tool
\* succeeding ends in Partitioned with status 0, whether the archive was
\* present or had to be fetched.
C5_ScenarioAPartitions ==
    ( /\ Exited
      /\ MainRun
      /\ ~ExistedAtStart(args.output)
      /\ args.size = DEFAULT_IMAGE_SIZE
      /\ args.mirror = "tsinghua"
      /\ env.os \in {"darwin", "debian", "arch"}
      /\ ~env.missing
      /\ env.free >= REQUIRED_SPACE_GB * 1024
      /\ ToolsSucceeded ) =>
        /\ status = 0
        /\ h.stage = "Partitioned"

\* C6: when a run ends after qemu-img create failed or was interrupted, no
\* file exists at the output path, the status is non-zero and gdisk was not
\* started.
C6_FailedAllocationLeavesNoFile ==
    (Exited /\ h.qemuFailed) =>
        /\ ~Exists(fs, args.output)
        /\ status # 0
        /\ ~h.gdiskInvoked

\* a run has ended after a failed qemu-img create over an existing file
C6_Witness ==
    /\ Exited
    /\ h.qemuFailed
    /\ h.err = "AllocationFailed"
    /\ ExistedAtStart(args.output)

\* C7: when a run ends after gdisk exited non-zero, the image made by the
\* allocation stage is still at the output path exactly as it was before
\* partitioning, the archive is as it was before partitioning, and the status
\* is non-zero.
C7_FailedPartitioningKeepsImage ==
    (Exited /\ h.gdiskFailed) =>
        /\ Exists(fs, args.output)
        /\ fs[Resolve(args.output)] = File("qcow2", args.size, "none")
        /\ fs[Resolve(args.output)] = h.fsPre[Resolve(args.output)]
        /\ fs[tar_file] = h.fsPre[tar_file]
        /\ status # 0

\* a run of main() has ended after gdisk exited non-zero
C7_Witness ==
    /\ Exited
    /\ MainRun
    /\ h.gdiskFailed
    /\ h.err = "PartitioningFailed"

\* the user has answered the overwrite prompt of a run of main() without --force
Answered == MainRun /\ ~args.force /\ h.prompts = 1 /\ h.answer # <<"?">>

\* the run was cancelled: status 0, no tool started, the output file as it was
Cancelled ==
    /\ Exited
    /\ status = 0
    /\ ~h.qemuInvoked
    /\ ~h.gdiskInvoked
    /\ fs[Resolve(args.output)] = h.fs0[Resolve(args.output)]

\* C8 as stated: any answer other than the string "y" cancels the run (stated
\* for the well-formed size tokens and an output path that is not the archive).
C8_AnyOtherAnswerCancels ==
    ( /\ Answered
      /\ OutputApart
      /\ ValidSizeToken(args.size)
      /\ h.answer # <<"y">> ) => Cancelled

\* C8 as amended: any answer that is not "y" once surrounding whitespace is
\* stripped and it is lower-cased cancels the run.
C8_DeclinedOverwriteCancels ==
    (Answered /\ Lower(Strip(h.answer)) # <<"y">>) => Cancelled

\* the user has declined with the empty answer, and the run was cancelled
C8_Witness == Answered /\ h.answer = <<>> /\ Cancelled

\* the archive was there and not empty when the run of main() started
ArchivePresentAtStart ==
    /\ MainRun
    /\ h.fs0[tar_file].exists
    /\ h.fs0[tar_file].data # "empty"

\* the fetch stage was not entered, and the archive is as it was
FetchSkippedArchiveKept ==
    /\ ~h.fetchInvoked
    /\ ~h.statvfs
    /\ ~h.curlStarted
    /\ pc \notin {"download_alarm", "curl"}
    /\ fs[tar_file] = h.fs0[tar_file]

C10_FailedFetchLeavesNoArchive ==
    /\ (Exited /\ h.curlFailed) =>
          (~Exists(fs, args.output_file) /\ status # 0)
    /\ pc \in {"exit", "idle"} =>
          \A p \in DOMAIN fs : fs[p].data # "partial_archive"
    /\ h.skipped => h.fs0[tar_file].data # "partial_archive"

\* after an earlier run's transfer failed, a run of main() finds no archive and
\* enters the fetch stage
C10_Witness == MainRun /\ h.prior /\ h.fetchInvoked /\ ~h.skipped

----------------------------------------------------------------------------
(* The exit status and the order of the stages *)

\* the failures of the stages before create_image
EarlyFailures == {"UnsupportedSystem", "MissingDependency"}

FetchFailures == {"FileNotFoundError", "InsufficientSpace", "TransferFailed"}

\* a stage has failed and its handler is about to run
FailedPcs ==
    {"curl_failed", "curl_interrupted", "qemu_failed", "qemu_interrupted",
     "gdisk_failed"}

\* the run of main() has ended: status 0 exactly for Partitioned and for a
\* declined overwrite, and nothing was attempted after the stage that failed
C11_ExitState ==
    (MainRun /\ Exited) =>
        /\ (status = 0) <=> (h.stage = "Partitioned" \/ h.err = "Declined")
        /\ h.err \notin {"none", "Declined"} => status # 0
        /\ h.err \in EarlyFailures =>
              (~h.fetchInvoked /\ ~h.skipped /\ h.stage = "Init")
        /\ (h.err \in EarlyFailures \cup FetchFailures \/ h.curlFailed) =>
              (h.prompts = 0 /\ ~h.qemuInvoked /\ ~h.gdiskInvoked)
        /\ h.err = "InvalidSizeFormat" =>
              (h.prompts = 0 /\ ~h.qemuInvoked /\ ~h.gdiskInvoked)
        /\ h.qemuFailed => ~h.gdiskInvoked

\* a failed stage is followed by the end of the run, not by another attempt
C11_FailureStep ==
    (MainRun /\ pc \in FailedPcs) => (pc' = "exit" /\ status' # 0)

\* C11: a run of main() ends with status 0 if and only if it reached
\* Partitioned or the user declined the overwrite; every stage failure ends
\* the run with a non-zero status, with no later stage attempted and the failed
\* stage not tried again.
C11_ExitStatus == []C11_ExitState /\ [][C11_FailureStep]_vars

\* a run of main() has ended non-zero after gdisk failed
C11_Witness ==
    /\ MainRun
    /\ Exited
    /\ h.err = "PartitioningFailed"
    /\ status = 1
    /\ h.stage = "ImageAllocated"

\* C12: download_alarm called with a mirror identifier that is not a key of
\* MIRRORS ends with UnknownMirror and a non-zero status, having selected no
\* URL and started no transfer (stated for a destination whose directory
\* exists and has room).
C12_UnknownMirrorFailsFast ==
    ( /\ args.entry = "download_alarm"
      /\ args.mirror \notin DOMAIN MIRRORS
      /\ ~StatvfsRaises(dirname(args.output_file))
      /\ env.free >= REQUIRED_SPACE_GB * 1024
      /\ pc # "download_alarm" ) =>
        /\ Exited
        /\ status # 0
        /\ h.err = "UnknownMirror"
        /\ h.url = "none"
        /\ ~h.curlStarted

----------------------------------------------------------------------------
(* The gdisk session of create_image, line 174-176: the script is fed line *)
(* by line to gdisk's prompts. Sizes and offsets are in MiB.               *)

\* the largest disk, in GiB, that the sessions are run on
MaxDiskGiB == 8

\* line 175: input=b"o\nn\n\n\n+300M\nef00\nn\n\n\n\n\nw\ny\n", split into lines
GdiskScript ==
    << <<"o">>, <<"n">>, <<>>, <<>>, <<"+", "3", "0", "0", "M">>,
       <<"e", "f", "0", "0">>, <<"n">>, <<>>, <<>>, <<>>, <<>>, <<"w">>,
       <<"y">> >>

\* the capacities of the images gdisk is run on
Capacities == { k * 1024 : k \in 1..MaxDiskGiB } \cup { 128 * 1024 }

\* the end of the usable space: the last MiB holds the backup table
LastUsable(cap) == cap - 1

\* the line a prompt of the session reads
GdLine == GdiskScript[gd.pos]

GdReading(mode) == gd.mode = mode /\ gd.pos <= Len(GdiskScript)

\* a Y/N prompt: "y" or "n" in either case; anything else asks again
YesNo(line) ==
    IF Lower(line) = <<"y">> THEN "yes"
    ELSE IF Lower(line) = <<"n">> THEN "no"
    ELSE "again"

\* where the free space begins: after the last partition of the table, on
\* an empty table after the first MiB
FirstFree(table) ==
    IF table = <<>> THEN 1
    ELSE table[Len(table)].start + table[Len(table)].size

\* "+<n>M" or "+<n>G" at the last-sector prompt: a size; the empty line: all
\* that remains
PartitionSize(line, start, cap) ==
    IF line = <<>> THEN LastUsable(cap) - start
    ELSE LET n == DigitsValue(SubSeq(line, 2, Len(line) - 1)) IN
         IF UpperChar(line[Len(line)]) = "G" THEN n * 1024 ELSE n

\* the type-code prompt: the empty line is the default, Linux filesystem
TypeCode(line) ==
    IF line = <<>> THEN "8300"
    ELSE IF Lower(line) = <<"e", "f", "0", "0">> THEN "EF00"
    ELSE "other"

\* the main menu: o, n and w are commands, any other line changes nothing
GdMainMenu ==
    /\ GdReading("main")
    /\ gd' = [gd EXCEPT !.pos = @ + 1,
                        !.mode = CASE GdLine = <<"o">> -> "confirm_o"
                                   [] GdLine = <<"n">> -> "part_number"
                                   [] GdLine = <<"w">> -> "confirm_w"
                                   [] OTHER -> "main"]
    /\ UNCHANGED <<fs, env, args, pc, status, h, runs>>

\* o: the new empty GPT is made only when the confirmation is answered yes
GdConfirmO ==
    /\ GdReading("confirm_o")
    /\ gd' = CASE YesNo(GdLine) = "yes" ->
                    [gd EXCEPT !.pos = @ + 1, !.mode = "main",
                               !.table = <<>>, !.emptied = TRUE]
               [] YesNo(GdLine) = "no" ->
                    [gd EXCEPT !.pos = @ + 1, !.mode = "main"]
               [] OTHER -> [gd EXCEPT !.pos = @ + 1]
    /\ UNCHANGED <<fs, env, args, pc, status, h, runs>>

\* n, first prompt: the partition number, by default the next free one
GdPartNumber ==
    /\ GdReading("part_number")
    /\ gd' = [gd EXCEPT !.pos = @ + 1, !.mode = "first_sector",
                        !.cur = [num |-> IF GdLine = <<>> THEN Len(gd.table) + 1
                                         ELSE DigitsValue(GdLine)]]
    /\ UNCHANGED <<fs, env, args, pc, status, h, runs>>

\* n, second prompt: the first sector, by default the start of the free space
GdFirstSector ==
    /\ GdReading("first_sector")
    /\ gd' = [gd EXCEPT !.pos = @ + 1, !.mode = "last_sector",
                        !.cur = [num |-> gd.cur.num,
                                 start |-> IF GdLine = <<>> THEN FirstFree(gd.table)
                                           ELSE DigitsValue(GdLine)]]
    /\ UNCHANGED <<fs, env, args, pc, status, h, runs>>

\* n, third prompt: the last sector, by default the end of the free space
GdLastSector ==
    /\ GdReading("last_sector")
    /\ gd' = [gd EXCEPT !.pos = @ + 1, !.mode = "type_code",
                        !.cur = [num |-> gd.cur.num, start |-> gd.cur.start,
                                 size |-> PartitionSize(GdLine, gd.cur.start, gd.cap)]]
    /\ UNCHANGED <<fs, env, args, pc, status, h, runs>>

\* n, fourth prompt: the type code; the partition joins the table
GdTypeCode ==
    /\ GdReading("type_code")
    /\ gd' = [gd EXCEPT !.pos = @ + 1, !.mode = "main", !.cur = <<>>,
                        !.table = Append(@, [num |-> gd.cur.num,
                                             start |-> gd.cur.start,
                                             size |-> gd.cur.size,
                                             type |-> TypeCode(GdLine)])]
    /\ UNCHANGED <<fs, env, args, pc, status, h, runs>>

\* w: the table is written only when the confirmation is answered yes
GdConfirmW ==
    /\ GdReading("confirm_w")
    /\ gd' = CASE YesNo(GdLine) = "yes" ->
                    [gd EXCEPT !.pos = @ + 1, !.mode = "done", !.written = TRUE]
               [] YesNo(GdLine) = "no" ->
                    [gd EXCEPT !.pos = @ + 1, !.mode = "main"]
               [] OTHER -> [gd EXCEPT !.pos = @ + 1]
    /\ UNCHANGED <<fs, env, args, pc, status, h, runs>>

\* create_image has made the image and starts gdisk on it
InitGdisk ==
    /\ args = [entry |-> "create_image", output |-> DEFAULT_OUTPUT_FILE,
               size |-> DEFAULT_IMAGE_SIZE, mirror |-> "tsinghua",
               force |-> FALSE, output_file |-> tar_file]
    /\ fs = [p \in Files |-> IF p = DEFAULT_OUTPUT_FILE
                             THEN File("qcow2", args.size, "none") ELSE Absent]
    /\ env = NoEnv
    /\ pc = "gdisk"
    /\ status = -1
    /\ h = [NoHistory([p \in Files |-> Absent])
              EXCEPT !.qemuInvoked = TRUE, !.stage = "ImageAllocated", !.fsPre = fs]
    /\ runs = 1
    /\ \E cap \in Capacities :
          gd = [mode |-> "main", pos |-> 1, cap |-> cap, cur |-> <<>>,
                table |-> <<>>, emptied |-> FALSE, written |-> FALSE]

NextGdisk ==
    \/ GdMainMenu
    \/ GdConfirmO
    \/ GdPartNumber
    \/ GdFirstSector
    \/ GdLastSector
    \/ GdTypeCode
    \/ GdConfirmW

SpecGdisk == InitGdisk /\ [][NextGdisk]_vars

\* the table the script is meant to make on a disk of the given capacity
TwoPartitions(cap) ==
    << [num |-> 1, start |-> FirstFree(<<>>), size |-> 300, type |-> "EF00"],
       [num |-> 2, start |-> FirstFree(<<>>) + 300,
        size |-> LastUsable(cap) - (FirstFree(<<>>) + 300), type |-> "8300"] >>

\* C13: once the script is consumed the table is written, it was freshly
\* emptied, and it holds exactly two partitions in order: partition 1 of
\* exactly 300M typed EF00, then partition 2 over all remaining space with the
\* default type.
C13_ScriptMakesTwoPartitions ==
    (gd.pos > Len(GdiskScript) \/ gd.mode = "done") =>
        /\ gd.written
        /\ gd.emptied
        /\ gd.table = TwoPartitions(gd.cap)

----------------------------------------------------------------------------
(* C14 *)

StageRank(stage) ==
    CASE stage = "Init" -> 0
      [] stage = "ToolsChecked" -> 1
      [] stage = "ArchiveReady" -> 2
      [] stage = "ImageAllocated" -> 3
      [] stage = "Partitioned" -> 4

FetchPcs == {"download_alarm", "curl", "curl_done", "curl_failed", "curl_interrupted"}

AllocationPcs == {"qemu_img", "qemu_failed", "qemu_interrupted"}

PartitioningPcs == {"gdisk", "gdisk_failed"}

ArchiveReady == h.skipped \/ (h.curlStarted /\ ~h.curlFailed)

\* what has happened when a stage is at work or has been at work
C14_StageOrder ==
    MainRun =>
        /\ (pc \in FetchPcs \/ h.fetchInvoked \/ h.skipped) =>
               StageRank(h.stage) >= 1
        /\ ~(h.fetchInvoked /\ h.skipped)
        /\ (pc \in AllocationPcs \/ h.qemuInvoked) =>
               /\ StageRank(h.stage) >= 2
               /\ ArchiveReady
        /\ (pc \in PartitioningPcs \/ h.gdiskInvoked) =>
               /\ StageRank(h.stage) >= 3
               /\ h.qemuInvoked /\ ~h.qemuFailed

\* within a run the stage moves forward one at a time, and a stage that has
\* been entered is not entered again
C14_StageStep ==
    (MainRun /\ ~Exited) =>
        /\ StageRank(h'.stage) \in {StageRank(h.stage), StageRank(h.stage) + 1}
        /\ pc' # "check_dependencies"
        /\ (h.fetchInvoked \/ h.skipped) => pc' \notin {"main_215", "download_alarm"}
        /\ h.qemuInvoked => pc' # "qemu_img"
        /\ h.gdiskInvoked => pc' # "gdisk"

\* C14: in every run of main() the stages follow Init -> ToolsChecked ->
\* ArchiveReady -> ImageAllocated -> Partitioned: the fetch stage or its skip
\* happens only after the tool check succeeded, qemu-img is invoked only after
\* the archive is ready, gdisk is invoked only after qemu-img succeeded in the
\* same run, and no stage is entered twice in one run.
C14_StagesSequential == []C14_StageOrder /\ [][C14_StageStep]_vars

C14_Witness ==
    /\ MainRun /\ Exited /\ status = 0
    /\ h.stage = "Partitioned"
    /\ h.skipped /\ h.qemuInvoked /\ h.gdiskInvoked
    /\ runs = MaxRuns

----------------------------------------------------------------------------
(* C15 *)

\* C15: when qemu-img create fails, the output path holds after the run
\* exactly what it held before the allocation stage started, also when a file
\* existed there and the user confirmed the overwrite (stated for valid size
\* tokens and an output path other than the archive's).
C15_FailedAllocationRestores ==
    ( /\ MainRun /\ Exited
      /\ h.qemuFailed /\ h.err = "AllocationFailed"
      /\ ValidSizeToken(args.size) /\ OutputApart ) =>
          fs[Resolve(args.output)] = h.fs0[Resolve(args.output)]

----------------------------------------------------------------------------
(* C16 *)

\* a run that gets as far as create_image
ImageRun == args.entry \in {"main", "create_image"}

OutputAsAtStart == fs[Resolve(args.output)] = h.fs0[Resolve(args.output)]

----------------------------------------------------------------------------
(* C17 *)

\* the run of main() has passed line 215
PastFetchTest == MainRun /\ StageRank(h.stage) >= 1 /\ pc # "main_215"

\* C17: the skip rule tests existence only: in a run of main() that passed the
\* tool check, the fetch stage is invoked if and only if no file of any size
\* exists at the archive path at the start; a zero-length archive makes the
\* run skip the fetch, and the run goes on to allocation as for a complete
\* archive.
C17_FetchIffNoArchive ==
    PastFetchTest =>
        /\ (h.fetchInvoked \/ pc = "download_alarm") <=> ~ExistedAtStart(tar_file)
        /\ h.skipped <=> ExistedAtStart(tar_file)
        /\ (ExistedAtStart(tar_file) /\ ~h.qemuInvoked /\ pc # "qemu_img") =>
               \/ pc \in {"create_image", "exists_check"}
               \/ Exited /\ h.err \in {"InvalidSizeFormat", "Declined", "EOFError",
                                       "KeyboardInterrupt"}

\* a zero-length archive was skipped and the run ended Partitioned
C17_Witness ==
    /\ MainRun /\ Exited /\ status = 0
    /\ h.fs0[Resolve(tar_file)].exists
    /\ h.fs0[Resolve(tar_file)].data = "empty"
    /\ OutputApart
    /\ h.skipped /\ ~h.fetchInvoked
    /\ h.stage = "Partitioned"

=============================================================================
